---- MODULE Spec2Model ----
(***************************************************************************)
(* Model of the raw-socket ICMP echo tool (02-icmp.cpp, held in            *)
(* src/src/04-receiver.cpp lines 126-321): socket setup, the probe loop,   *)
(* the checksum function and the reply filter.  Buffers are sequences of   *)
(* bytes (index 1 = offset 0); 16-bit fields are read and written in the   *)
(* host's byte order, which is little-endian on the Linux targets the      *)
(* program is built for.  Time is the number of milliseconds since the     *)
(* pre-send timestamp 'start'.                                             *)
(***************************************************************************)
EXTENDS Integers, Sequences, FiniteSets, TLC

\* ---------------------------------------------------------------- constants
PACKET_SIZE == 56
MAX_WAIT_TIME == 1000
ICMP_HDR_SIZE == 8
ICMP_ECHO == 8
ICMP_ECHOREPLY == 0
INITIAL_SEND_COUNT == 10
INITIAL_SEQUENCE == 0
RCV_TIMEOUT_MS == 1000
SLEEP_MS == 1000
EXIT_SUCCESS == 0
EXIT_FAILURE == 1

\* ------------------------------------------------------------------- bounds
\* granularity of the arrival times of datagrams, in milliseconds
TimeStep == 600
\* loop iterations followed under arbitrary inbound traffic (Spec)
MaxAttempts == 2
\* loop iterations followed when only replies to the outstanding request
\* arrive (SpecLong)
MaxLongAttempts == 11
\* bytes of recv_buffer that are modelled (the longest datagram delivered)
RecvBufLen == 88
\* longest buffer calculate_checksum is applied to on its own
MaxCkLen == 7
\* discarded datagrams counted within one probe's wait
MaxFiltered == 2
\* multicast messages followed in one run of the multicast receiver
MaxMcMessages == 3
\* messages followed on one connection of the TCP receiver
MaxTcpMessages == 3
\* senders that connect to the TCP receiver's port during one run
MaxSenders == 2

SendLen == PACKET_SIZE + ICMP_HDR_SIZE

\* ------------------------------------------------------------ byte helpers
Lo(v) == v % 256
Hi(v) == (v \div 256) % 256

\* *(unsigned short*)(buf + off) on a little-endian host
Word(buf, off) == buf[off + 1] + 256 * buf[off + 2]

\* buf with the bytes of 'bytes' stored at offset off
Store(buf, off, bytes) ==
    [i \in 1..Len(buf) |->
        IF i > off /\ i <= off + Len(bytes) THEN bytes[i - off] ELSE buf[i]]

\* *(unsigned short*)(buf + off) = v
StoreWord(buf, off, v) == Store(buf, off, <<Lo(v), Hi(v)>>)

Zeros(n) == [i \in 1..n |-> 0]

\* ---------------------------------------------------------------- checksum
\* The accumulator 'unsigned int sum' is kept as its two 16-bit halves
\* <<sum >> 16, sum & 0xFFFF>>, so that sum += x wraps at 32 bits.
Add32(sum, x) ==
    <<(sum[1] + ((sum[2] + x) \div 65536)) % 65536, (sum[2] + x) % 65536>>

\* the for loop of calculate_checksum: sum += *buf++ while len > 1, then the
\* odd trailing byte
RECURSIVE SumLoop(_, _, _, _)
SumLoop(buf, off, len, sum) ==
    IF len > 1
    THEN SumLoop(buf, off + 2, len - 2, Add32(sum, Word(buf, off)))
    ELSE IF len = 1 THEN Add32(sum, buf[off + 1]) ELSE sum

\* sum = (sum >> 16) + (sum & 0xFFFF)
Fold1(sum) == Add32(<<0, sum[1]>>, sum[2])
\* the second fold left out
Fold2Dropped(sum) == sum

\* sum += (sum >> 16)
Fold2(sum) == Add32(sum, sum[1])
\* result = ~sum, truncated to unsigned short
Complement16(sum) == 65535 - sum[2]

\* calculate_checksum(b + off, len)
calculate_checksum(buf, off, len) ==
    Complement16(Fold2(Fold1(SumLoop(buf, off, len, <<0, 0>>))))

\* ------------------------------------------------------------------- state
VARIABLES
    pc,           \* the statement main is at
    pid,          \* getpid()
    sockfd,       \* "none" | "open" | "closed"
    exit_status,  \* -1 while running, else the status the process ended with
    lastLine,     \* the line the last statement wrote to stdout/stderr, or "none"
    send_count,   \* int send_count
    sequence,     \* int sequence
    send_buffer,  \* char send_buffer[PACKET_SIZE + sizeof(struct icmphdr)]
    recv_buffer,  \* char recv_buffer[BUFFER_SIZE], its first RecvBufLen bytes
    recv_len,     \* int recv_len of the last recvfrom
    received,     \* bool received
    elapsed,      \* now() - start, in milliseconds
    duration,     \* end - start of the last read, in milliseconds
    attempts,     \* history: loop iterations begun
    idle,         \* history: milliseconds slept since the last sendto call
    probe,        \* history: what was reported for the probe of this iteration
    prev,         \* history: the probe of the iteration before this one
    dgram,        \* history: the datagram the last recvfrom delivered
    ck,           \* calculate_checksum applied to a buffer on its own
    mc,           \* the multicast receiver (04-receiver.cpp)
    tcp           \* the TCP receiver (01-receiver.cpp)

vars == <<pc, pid, sockfd, exit_status, lastLine, send_count, sequence,
          send_buffer, recv_buffer, recv_len, received, elapsed, duration,
          attempts, idle, probe, prev, dgram, ck, mc, tcp>>

\* the state of the ICMP tool, and the state outside it
icmpVars == <<pc, pid, sockfd, exit_status, lastLine, send_count, sequence,
              send_buffer, recv_buffer, recv_len, received, elapsed, duration,
              attempts, idle, probe, prev, dgram>>
others == <<ck, mc, tcp>>

\* getpid() & 0xFFFF
Identifier == pid % 65536

\* history of one loop iteration: whether its Echo Request went out and the
\* bytes put on the wire, whether a read was made for it, the lines reported
\* 'filtered' counts the reads of this probe that failed the filter of
\* lines 292-293, up to MaxFiltered
NoProbe == [sent |-> FALSE, wire |-> <<>>, read |-> FALSE, success |-> 0,
            timeout |-> 0, senderr |-> 0, filtered |-> 0]
\* what the last read delivered, as the network sent it: the probe it answers
\* (0 the outstanding one, 1 the one before it), the field of the peer's
\* reply that was changed on the way, its fields as delivered, whether its
\* checksum is the one its sender computed, and how much of it was delivered
NoDgram == [origin |-> -1, changed |-> "none", ihl |-> 0, type |-> 0, id |-> 0,
            seq |-> 0, intact |-> FALSE, whole |-> FALSE, len |-> -1]

\* --------------------------------------------------------- packet building
\* lines 242-254: type, code, id of the header and the payload pattern; the
\* checksum and sequence fields are not written before the loop
InitPacket(buf, id) ==
    [i \in 1..SendLen |->
        IF i = 1 THEN ICMP_ECHO
        ELSE IF i = 2 THEN 0
        ELSE IF i = 5 THEN Lo(id)
        ELSE IF i = 6 THEN Hi(id)
        ELSE IF i > ICMP_HDR_SIZE THEN (i - 1) % 256
        ELSE buf[i]]

\* lines 261-263: sequence, zeroed checksum, checksum over the 64 bytes
WithChecksum(buf) == StoreWord(buf, 2, calculate_checksum(buf, 0, SendLen))
\* the build without line 262: the checksum is computed over a packet that
\* still holds the previous checksum
BuildPacketKeepsChecksum(buf, seq) ==
    WithChecksum(StoreWord(buf, 6, seq % 65536))

BuildPacket(buf, seq) ==
    WithChecksum(StoreWord(StoreWord(buf, 6, seq % 65536), 2, 0))

\* ------------------------------------------------- what recvfrom delivers
\* The peer's checksum, computed as a conforming stack computes it: the
\* ones'-complement of the end-around-carry sum of the big-endian 16-bit
\* words, an odd last byte being the high byte of a zero-padded word.
RECURSIVE WireSum(_, _)
WireSum(bytes, off) ==
    IF off >= Len(bytes) THEN 0
    ELSE 256 * bytes[off + 1]
         + (IF off + 2 <= Len(bytes) THEN bytes[off + 2] ELSE 0)
         + WireSum(bytes, off + 2)

RECURSIVE EndAround(_)
EndAround(s) == IF s > 65535 THEN EndAround((s % 65536) + (s \div 65536)) ELSE s

WireChecksum(bytes) == 65535 - EndAround(WireSum(bytes, 0))

\* an ICMP message whose checksum field the sender has filled in
Checksummed(icmp) ==
    LET z == Store(icmp, 2, <<0, 0>>)
        c == WireChecksum(z)
    IN  Store(z, 2, <<Hi(c), Lo(c)>>)

\* the Echo Reply a peer returns for the request req: the same identifier,
\* sequence and payload, type 0, its own checksum
EchoReply(req) == Checksummed(Store(req, 0, <<ICMP_ECHOREPLY>>))

\* one field of a valid reply changed (the checksum is valid again unless
\* the checksum itself is the field that is changed: one bit of it flipped)
Mutations == {"none", "type", "id", "seq", "cksum"}
Mutated(icmp, m) ==
    CASE m = "none"  -> icmp
      [] m = "type"  -> Checksummed(Store(icmp, 0, <<ICMP_ECHO>>))
      [] m = "id"    -> Checksummed(StoreWord(icmp, 4, (Word(icmp, 4) + 1) % 65536))
      [] m = "seq"   -> Checksummed(StoreWord(icmp, 6, (Word(icmp, 6) + 1) % 65536))
      [] m = "cksum" -> Store(icmp, 2, <<IF icmp[3] % 2 = 0 THEN icmp[3] + 1
                                                         ELSE icmp[3] - 1>>)

\* the IPv4 header the raw socket delivers in front of the ICMP message
IHLs == {5, 6}
TTLs == {55}
IpHeader(ihl, ttl) ==
    [i \in 1..(ihl * 4) |->
        IF i = 1 THEN 64 + ihl
        ELSE IF i = 9 THEN ttl
        ELSE IF i = 10 THEN 1
        ELSE 0]

\* a datagram is a whole reply, or a short ICMP message: the IP header and
\* the four bytes type, code and checksum, the checksum that of those bytes
Delivered(bytes, ihl, whole) ==
    IF whole THEN bytes
    ELSE SubSeq(bytes, 1, ihl * 4)
         \o Checksummed(SubSeq(bytes, ihl * 4 + 1, ihl * 4 + 4))

Pids == {66770}

\* the requests the program can send and the datagrams that answer them,
\* computed once
KnownRequests ==
    {BuildPacket(InitPacket(Zeros(SendLen), p % 65536), s) :
        p \in Pids, s \in 0..MaxLongAttempts}
ReplyTable ==
    [r \in KnownRequests |-> [m \in Mutations |-> Mutated(EchoReply(r), m)]]
ReplyTo(req, m) ==
    IF req \in DOMAIN ReplyTable THEN ReplyTable[req][m]
                                 ELSE Mutated(EchoReply(req), m)

\* arrival times of a datagram within one blocking read
Delays == {k * TimeStep : k \in 0..((RCV_TIMEOUT_MS - 1) \div TimeStep)}

\* the datagrams one read may deliver: a reply to the outstanding request or
\* to the request before it, one field changed or none
Origins == {0} \cup (IF prev.sent THEN {1} ELSE {})
RequestOf(o) == IF o = 0 THEN probe.wire ELSE prev.wire

Datagram(o, m, ihl, ttl, whole) ==
    LET icmp  == ReplyTo(RequestOf(o), m)
        bytes == Delivered(IpHeader(ihl, ttl) \o icmp, ihl, whole)
    IN  [bytes |-> bytes,
         info  |-> [origin |-> o, changed |-> m, ihl |-> ihl, type |-> icmp[1],
                    id |-> Word(icmp, 4), seq |-> Word(icmp, 6),
                    intact |-> (~whole \/ m # "cksum"), whole |-> whole,
                    len |-> Len(bytes)]]

\* ------------------------------------------------------------------- setup
\* an uninitialised recv_buffer holds whatever the stack held: nothing that
\* looks like a packet, or bytes that look like a valid reply
Garbage(p) ==
    {Zeros(RecvBufLen),
     Store(Zeros(RecvBufLen), 0,
           IpHeader(5, 64) \o
           Checksummed([i \in 1..SendLen |->
               IF i = 5 THEN Lo(p % 65536)
               ELSE IF i = 6 THEN Hi(p % 65536)
               ELSE IF i > ICMP_HDR_SIZE THEN (i - 1) % 256 ELSE 0]))}

\* nothing else of the repository is running; 'out' is the sequence of
\* messages a receiver has printed
NoCk == [stage |-> "off", buf |-> <<>>, result |-> 0, packet |-> <<>>,
         valid |-> FALSE]
McOff == [pc |-> "off", open |-> FALSE, joined |-> FALSE, member |-> FALSE,
          calls |-> <<>>, lastLine |-> "none", out |-> <<>>, from |-> 0]
TcpOff == [pc |-> "off", senders |-> 0, accepted |-> 0, listenOpen |-> FALSE,
           clientOpen |-> FALSE, listenCloses |-> 0, clientCloses |-> 0,
           badCloses |-> 0, lastLine |-> "none", out |-> <<>>,
           exit_status |-> -1]

Init ==
    /\ ck = NoCk /\ mc = McOff /\ tcp = TcpOff
    /\ pc = "socket"
    /\ pid \in Pids
    /\ sockfd = "none"
    /\ exit_status = -1
    /\ lastLine = "none"
    /\ send_count = INITIAL_SEND_COUNT
    /\ sequence = INITIAL_SEQUENCE
    /\ send_buffer = Zeros(SendLen)
    /\ recv_buffer \in Garbage(pid)
    /\ recv_len = 0
    /\ received = FALSE
    /\ elapsed = 0
    /\ duration = 0
    /\ attempts = 0
    /\ idle = 0
    /\ probe = NoProbe
    /\ prev = NoProbe
    /\ dgram = NoDgram

\* the diagnostic written, but no exit: setup goes on to the packet header
AbortWithoutExit(msg, closeIt) ==
    /\ lastLine' = msg
    /\ pc' = "header"
    /\ UNCHANGED <<sockfd, exit_status>>

\* exit(EXIT_FAILURE) after a diagnostic on stderr
Abort(msg, closeIt) ==
    /\ lastLine' = msg
    /\ sockfd' = IF closeIt THEN "closed" ELSE sockfd
    /\ exit_status' = EXIT_FAILURE
    /\ pc' = "exited"

\* one setup call at pc = at that either succeeds, or fails with msg
SetupStep(at, next, msg, closeIt) ==
    /\ pc = at
    /\ \E ok \in BOOLEAN :
         IF ok
         THEN /\ pc' = next
              /\ lastLine' = "none"
              /\ sockfd' = IF at = "socket" THEN "open" ELSE sockfd
              /\ UNCHANGED exit_status
         ELSE Abort(msg, closeIt)
    /\ UNCHANGED <<ck, mc, tcp, pid, send_count, sequence, send_buffer, recv_buffer, recv_len,
                   received, elapsed, duration, attempts, idle, probe, prev, dgram>>

Socket       == SetupStep("socket", "reuseaddr", "Failed to create socket", FALSE)
SetReuseAddr == SetupStep("reuseaddr", "reuseport", "Failed to set socket options", TRUE)
SetReusePort == SetupStep("reuseport", "bind", "Failed to set socket options", TRUE)
Bind         == SetupStep("bind", "rcvtimeo", "Failed to bind socket", TRUE)
SetRcvTimeo  == SetupStep("rcvtimeo", "header", "Failed to set SO_RCVTIMEO", FALSE)

\* lines 236-254: target address, ICMP header, payload
InitHeader ==
    /\ pc = "header"
    /\ send_buffer' = InitPacket(send_buffer, Identifier)
    /\ pc' = "loop"
    /\ lastLine' = "none"
    /\ UNCHANGED <<ck, mc, tcp, pid, sockfd, exit_status, send_count, sequence, recv_buffer,
                   recv_len, received, elapsed, duration, attempts, idle, probe,
                   prev, dgram>>

\* -------------------------------------------------------------- probe loop
\* line 256, and lines 319-320 once the condition is false
LoopCheckUpTo(cap) ==
    /\ pc = "loop"
    /\ send_count > 0 => attempts < cap
    /\ IF send_count > 0
       THEN /\ pc' = "sleep"
            /\ attempts' = attempts + 1
            /\ UNCHANGED <<sockfd, exit_status>>
       ELSE /\ sockfd' = "closed"
            /\ exit_status' = EXIT_SUCCESS
            /\ pc' = "exited"
            /\ UNCHANGED attempts
    /\ lastLine' = "none"
    /\ UNCHANGED <<ck, mc, tcp, pid, send_count, sequence, send_buffer, recv_buffer, recv_len,
                   received, elapsed, duration, idle, probe, prev, dgram>>

LoopCheck == LoopCheckUpTo(MaxAttempts)
LoopCheckLong == LoopCheckUpTo(MaxLongAttempts)

\* line 258
Sleep ==
    /\ pc = "sleep"
    /\ idle' = idle + SLEEP_MS
    /\ pc' = "build"
    /\ lastLine' = "none"
    /\ UNCHANGED <<ck, mc, tcp, pid, sockfd, exit_status, send_count, sequence, send_buffer,
                   recv_buffer, recv_len, received, elapsed, duration, attempts,
                   probe, prev, dgram>>

\* lines 260-265: the packet of this iteration and the timestamp 'start'
Build ==
    /\ pc = "build"
    /\ send_buffer' = BuildPacket(send_buffer, sequence)
    /\ elapsed' = 0
    /\ pc' = "send"
    /\ lastLine' = "none"
    /\ UNCHANGED <<ck, mc, tcp, pid, sockfd, exit_status, send_count, sequence, recv_buffer,
                   recv_len, received, duration, attempts, idle, probe, prev,
                   dgram>>

\* a failed send that falls through to the receive loop
SendFailureFallsThrough == "wait"

\* where 'continue' (line 271) resumes
SendFailureTarget == "loop"

\* lines 267-274
SendTo ==
    /\ pc = "send"
    /\ \E ok \in BOOLEAN :
         IF ok
         THEN /\ probe' = [NoProbe EXCEPT !.sent = TRUE, !.wire = send_buffer]
              /\ received' = FALSE
              /\ lastLine' = "none"
              /\ pc' = "wait"
         ELSE /\ probe' = [NoProbe EXCEPT !.senderr = 1]
              /\ lastLine' = "Failed to send ICMP packet"
              /\ pc' = SendFailureTarget
              /\ UNCHANGED received
    /\ prev' = [probe EXCEPT !.filtered = 0]
    /\ idle' = 0
    /\ UNCHANGED <<ck, mc, tcp, pid, sockfd, exit_status, send_count, sequence, send_buffer,
                   recv_buffer, recv_len, elapsed, duration, attempts, dgram>>

\* the condition of the inner while, lines 275-276
WithinBudget(ms) == ms < MAX_WAIT_TIME

WaitCheck ==
    /\ pc = "wait"
    /\ pc' = IF WithinBudget(elapsed) THEN "recv" ELSE "report"
    /\ lastLine' = "none"
    /\ UNCHANGED <<ck, mc, tcp, pid, sockfd, exit_status, send_count, sequence, send_buffer,
                   recv_buffer, recv_len, received, elapsed, duration, attempts,
                   idle, probe, prev, dgram>>

\* a failed read that leaves the iteration without the timeout report
RecvFailureSkipsReport == "loop"

\* where the loop goes when recvfrom returns -1 (lines 282-286: break)
RecvFailureTarget == "report"

\* recvfrom returns -1: its SO_RCVTIMEO of 1 s ran out, or it failed earlier
\* (EINTR after a stop signal, ENOMEM, ENETDOWN, ...)
RecvFail ==
    /\ pc = "recv"
    /\ \E d \in Delays \cup {RCV_TIMEOUT_MS} :
         /\ elapsed' = elapsed + d
         /\ duration' = elapsed + d
    /\ recv_len' = -1
    /\ received' = FALSE
    /\ probe' = [probe EXCEPT !.read = TRUE]
    /\ dgram' = NoDgram
    /\ pc' = RecvFailureTarget
    /\ lastLine' = "none"
    /\ UNCHANGED <<ck, mc, tcp, pid, sockfd, exit_status, send_count, sequence, send_buffer,
                   recv_buffer, attempts, idle, prev>>

\* lines 289-290
IhlOf(buf) == buf[1] % 16
IcmpOffset(buf) == IhlOf(buf) * 4

\* the filter without its comparison of the identifier
IsCandidateAnyId(buf, seq) ==
    /\ buf[IcmpOffset(buf) + 1] = ICMP_ECHOREPLY
    /\ Word(buf, IcmpOffset(buf) + 6) = seq

\* lines 292-293
IsCandidate(buf, seq) ==
    /\ buf[IcmpOffset(buf) + 1] = ICMP_ECHOREPLY
    /\ Word(buf, IcmpOffset(buf) + 4) = Identifier
    /\ Word(buf, IcmpOffset(buf) + 6) = seq

\* the validation left out
ChecksumUnchecked(buf, len) == TRUE

\* the validation without line 296: the field is not zeroed before the
\* checksum is recomputed
ChecksumOkFieldKept(buf, len) ==
    LET off == IcmpOffset(buf)
    IN  Word(buf, off + 2) = calculate_checksum(buf, off, len - off)

\* lines 295-300
ChecksumOk(buf, len) ==
    LET off      == IcmpOffset(buf)
        original == Word(buf, off + 2)
        zeroed   == StoreWord(buf, off + 2, 0)
    IN  original = calculate_checksum(zeroed, off, len - off)

\* lines 292-309: the read is reported as the reply
Matches(buf, len, seq) == IsCandidate(buf, seq) /\ ChecksumOk(buf, len)

\* a discarded datagram that ends the wait
DiscardEndsWait == "report"

\* lines 293, 300: a datagram that is not the reply leaves the inner loop
\* running
DiscardTarget == "wait"

\* lines 278-310: recvfrom delivers a datagram
RecvFrom(origins, mutations, ihls, cuts) ==
    /\ pc = "recv"
    /\ \E d \in Delays, o \in origins, m \in mutations, ihl \in ihls,
          ttl \in TTLs, whole \in cuts :
         LET dg  == Datagram(o, m, ihl, ttl, whole)
             buf == Store(recv_buffer, 0, dg.bytes)
         IN  /\ recv_buffer' = buf
             /\ recv_len' = Len(dg.bytes)
             /\ dgram' = dg.info
             /\ elapsed' = elapsed + d
             /\ duration' = elapsed + d
             /\ IF Matches(buf, Len(dg.bytes), sequence)
                THEN /\ lastLine' = "success"
                     /\ probe' = [probe EXCEPT !.read = TRUE,
                                               !.success = probe.success + 1]
                     /\ received' = TRUE
                     /\ pc' = "report"
                ELSE /\ lastLine' = "none"
                     /\ probe' = [probe EXCEPT
                            !.read = TRUE,
                            !.filtered = IF IsCandidate(buf, sequence) THEN @
                                         ELSE IF @ < MaxFiltered THEN @ + 1
                                         ELSE @]
                     /\ pc' = DiscardTarget
                     /\ UNCHANGED received
    /\ UNCHANGED <<ck, mc, tcp, pid, sockfd, exit_status, send_count, sequence, send_buffer,
                   attempts, idle, prev>>

\* lines 313-316
Report ==
    /\ pc = "report"
    /\ IF ~received
       THEN /\ lastLine' = "Request timed out"
            /\ probe' = [probe EXCEPT !.timeout = probe.timeout + 1]
       ELSE /\ lastLine' = "none"
            /\ UNCHANGED probe
    /\ pc' = "loop"
    /\ UNCHANGED <<ck, mc, tcp, pid, sockfd, exit_status, send_count, sequence, send_buffer,
                   recv_buffer, recv_len, received, elapsed, duration, attempts,
                   idle, prev, dgram>>

\* any datagram of the menu arrives
RecvDatagram == RecvFrom(Origins, Mutations, IHLs, BOOLEAN)
\* only whole, unchanged replies to the outstanding request arrive
RecvReply == RecvFrom({0}, {"none"}, {5}, {TRUE})

Next ==
    \/ Socket \/ SetReuseAddr \/ SetReusePort \/ Bind \/ SetRcvTimeo
    \/ InitHeader \/ LoopCheck \/ Sleep \/ Build \/ SendTo \/ WaitCheck
    \/ RecvFail \/ RecvDatagram \/ Report

Spec == Init /\ [][Next]_vars

\* the same program followed for more iterations under plain traffic
NextLong ==
    \/ Socket \/ SetReuseAddr \/ SetReusePort \/ Bind \/ SetRcvTimeo
    \/ InitHeader \/ LoopCheckLong \/ Sleep \/ Build \/ SendTo \/ WaitCheck
    \/ RecvFail \/ RecvReply \/ Report

SpecLong == Init /\ [][NextLong]_vars

\* ----------------------------------------- calculate_checksum on its own
\* the ICMP tool is not running
IcmpOff ==
    /\ pc = "off" /\ pid = 0 /\ sockfd = "none" /\ exit_status = -1
    /\ lastLine = "none" /\ send_count = 0 /\ sequence = 0
    /\ send_buffer = <<>> /\ recv_buffer = <<>> /\ recv_len = 0
    /\ received = FALSE /\ elapsed = 0 /\ duration = 0 /\ attempts = 0
    /\ idle = 0 /\ probe = NoProbe /\ prev = NoProbe /\ dgram = NoDgram

\* the buffers the function is given: every byte string up to MaxCkLen bytes
\* over bytes that make the sum carry
CkBytes == {0, 1, 255}
RECURSIVE BytesOfLen(_)
BytesOfLen(n) ==
    IF n = 0 THEN {<<>>}
    ELSE {Append(b, x) : b \in BytesOfLen(n - 1), x \in CkBytes}
CkBuffers == UNION {BytesOfLen(n) : n \in 0..MaxCkLen}

InitChecksum ==
    /\ IcmpOff /\ mc = McOff /\ tcp = TcpOff
    /\ \E b \in CkBuffers : ck = [NoCk EXCEPT !.stage = "input", !.buf = b]

\* calculate_checksum(b, len) over the whole buffer
CkCompute ==
    /\ ck.stage = "input"
    /\ ck' = [ck EXCEPT !.stage = "summed",
                        !.result = calculate_checksum(ck.buf, 0, Len(ck.buf))]
    /\ UNCHANGED <<icmpVars, mc, tcp>>

\* line 263 for a buffer whose checksum field is zero: the result is written
\* into the field
CkStore ==
    /\ ck.stage = "summed"
    /\ Len(ck.buf) >= 4 /\ Word(ck.buf, 2) = 0
    /\ ck' = [ck EXCEPT !.stage = "stored",
                        !.packet = StoreWord(ck.buf, 2, ck.result)]
    /\ UNCHANGED <<icmpVars, mc, tcp>>

\* lines 289-300 applied to that packet behind an IP header
CkValidate ==
    /\ ck.stage = "stored"
    /\ \E ihl \in IHLs, ttl \in TTLs :
         LET buf == IpHeader(ihl, ttl) \o ck.packet
         IN  ck' = [ck EXCEPT !.stage = "validated",
                             !.valid = ChecksumOk(buf, Len(buf))]
    /\ UNCHANGED <<icmpVars, mc, tcp>>

NextChecksum == CkCompute \/ CkStore \/ CkValidate

SpecChecksum == InitChecksum /\ [][NextChecksum]_vars

\* ------------------------------------------------- the multicast receiver
\* (04-receiver.cpp, lines 1-124)
McMessages == {"alpha", "beta", "gamma"}
McSenders == {1, 2}

InitMulticast ==
    /\ IcmpOff /\ ck = NoCk /\ tcp = TcpOff
    /\ mc = [McOff EXCEPT !.pc = "socket"]

\* an exception leaves the constructor: the object does not exist, its
\* destructor is not run, main has no handler and the process is terminated
McCtorThrows(msg) ==
    mc' = [mc EXCEPT !.pc = "terminated", !.lastLine = msg]

\* lines 36-40
McSocket ==
    /\ mc.pc = "socket"
    /\ \E ok \in BOOLEAN :
         IF ok THEN mc' = [mc EXCEPT !.pc = "reuseaddr", !.open = TRUE]
               ELSE McCtorThrows("Failed to create socket")
    /\ UNCHANGED <<icmpVars, ck, tcp>>

\* lines 42-61: one setsockopt or bind of the constructor
McSetupStep(at, next, msg) ==
    /\ mc.pc = at
    /\ \E ok \in BOOLEAN :
         IF ok THEN mc' = [mc EXCEPT !.pc = next]
               ELSE McCtorThrows(msg)
    /\ UNCHANGED <<icmpVars, ck, tcp>>

McSetReuseAddr == McSetupStep("reuseaddr", "reuseport", "Failed to set SO_REUSEADDR")
McSetReusePort == McSetupStep("reuseport", "bind", "Failed to set SO_REUSEPORT")
McBind         == McSetupStep("bind", "join", "Failed to bind socket")

\* lines 63-72: IP_ADD_MEMBERSHIP
McJoin ==
    /\ mc.pc = "join"
    /\ \E ok \in BOOLEAN :
         IF ok
         THEN mc' = [mc EXCEPT !.pc = "recv", !.joined = TRUE, !.member = TRUE,
                               !.calls = Append(@, "add"),
                               !.lastLine = "Listening for multicast messages"]
         ELSE McCtorThrows("Failed to join multicast group")
    /\ UNCHANGED <<icmpVars, ck, tcp>>

\* lines 88-106 and 118-121: one call of receiveMessages from main's loop
receiveMessages ==
    /\ mc.pc = "recv"
    /\ \/ /\ Len(mc.out) < MaxMcMessages
          /\ \E m \in McMessages, a \in McSenders :
               mc' = [mc EXCEPT !.lastLine = "Message", !.from = a,
                                !.out = Append(@, m)]
       \/ mc' = [mc EXCEPT !.pc = "thrown",
                           !.lastLine = "Failed to receive message"]
    /\ UNCHANGED <<icmpVars, ck, tcp>>

\* lines 114-124: main has no handler for the exception of line 99, so
\* std::terminate is called; whether the stack is unwound first, and with it
\* whether receiver's destructor runs, is left to the implementation
McUncaught ==
    /\ mc.pc = "thrown"
    /\ \E unwound \in BOOLEAN :
         mc' = [mc EXCEPT !.pc = IF unwound THEN "dtor" ELSE "terminated"]
    /\ UNCHANGED <<icmpVars, ck, tcp>>

\* lines 75-86: the destructor
McDestructor ==
    /\ mc.pc = "dtor"
    /\ \E ok \in BOOLEAN :
         mc' = [mc EXCEPT
                  !.calls = @ \o <<"drop", "close">>,
                  !.member = IF ok THEN FALSE ELSE @,
                  !.lastLine = IF ok THEN "Left multicast group"
                               ELSE "Failed to drop multicast group",
                  !.open = FALSE,
                  !.pc = "terminated"]
    /\ UNCHANGED <<icmpVars, ck, tcp>>

NextMulticast ==
    \/ McSocket \/ McSetReuseAddr \/ McSetReusePort \/ McBind \/ McJoin
    \/ receiveMessages \/ McUncaught \/ McDestructor

SpecMulticast == InitMulticast /\ [][NextMulticast]_vars

\* ------------------------------------------------------- the TCP receiver
\* (01-receiver.cpp)
TcpMessages == {"hello", "world", "bye"}

\* the senders that will connect to the port during the run
InitTcp ==
    /\ IcmpOff /\ ck = NoCk /\ mc = McOff
    /\ \E n \in 1..MaxSenders :
         tcp = [TcpOff EXCEPT !.pc = "socket", !.senders = n]

\* close(fd) on a descriptor that is open, or that was closed before
CloseListen(t) ==
    [t EXCEPT !.listenCloses = @ + 1, !.listenOpen = FALSE,
              !.badCloses = IF t.listenOpen THEN @ ELSE @ + 1]
CloseClient(t) ==
    [t EXCEPT !.clientCloses = @ + 1, !.clientOpen = FALSE,
              !.badCloses = IF t.clientOpen THEN @ ELSE @ + 1]

\* lines 39-44
TcpSocket ==
    /\ tcp.pc = "socket"
    /\ \E ok \in BOOLEAN :
         IF ok THEN tcp' = [tcp EXCEPT !.pc = "reuseaddr", !.listenOpen = TRUE]
               ELSE tcp' = [tcp EXCEPT !.pc = "exited",
                                       !.lastLine = "Failed to create socket",
                                       !.exit_status = EXIT_FAILURE]
    /\ UNCHANGED <<icmpVars, ck, mc>>

\* lines 62-117: one setup call after socket()
TcpSetupStep(at, next, msg) ==
    /\ tcp.pc = at
    /\ \E ok \in BOOLEAN :
         IF ok THEN tcp' = [tcp EXCEPT !.pc = next]
               ELSE tcp' = [CloseListen(tcp) EXCEPT !.pc = "exited",
                                                    !.lastLine = msg,
                                                    !.exit_status = EXIT_FAILURE]
    /\ UNCHANGED <<icmpVars, ck, mc>>

TcpSetReuseAddr == TcpSetupStep("reuseaddr", "reuseport", "Failed to set SO_REUSEADDR")
TcpSetReusePort == TcpSetupStep("reuseport", "bind", "Failed to set SO_REUSEPORT")
TcpBind         == TcpSetupStep("bind", "listen", "Failed to bind socket")
TcpListen       == TcpSetupStep("listen", "accept", "Failed to listen")

\* lines 124-139: the one accept of the program
TcpAccept ==
    /\ tcp.pc = "accept"
    /\ \E ok \in BOOLEAN :
         IF ok
         THEN tcp' = [tcp EXCEPT !.pc = "recv", !.accepted = @ + 1,
                                 !.senders = @ - 1, !.clientOpen = TRUE,
                                 !.lastLine = "Connection accepted"]
         ELSE tcp' = [CloseListen(tcp) EXCEPT
                         !.pc = "exited",
                         !.lastLine = "Failed to accept connection",
                         !.exit_status = EXIT_FAILURE]
    /\ UNCHANGED <<icmpVars, ck, mc>>

\* lines 141-158: one pass of the receive loop
TcpRecv ==
    /\ tcp.pc = "recv"
    /\ \/ /\ Len(tcp.out) < MaxTcpMessages
          /\ \E m \in TcpMessages :
               tcp' = [tcp EXCEPT !.lastLine = "Message from client",
                                  !.out = Append(@, m)]
       \/ tcp' = [CloseClient(tcp) EXCEPT
                     !.pc = "cleanup",
                     !.lastLine = "Failed to receive message from client"]
       \/ tcp' = [CloseClient(tcp) EXCEPT !.pc = "cleanup",
                                          !.lastLine = "Client disconnected"]
    /\ UNCHANGED <<icmpVars, ck, mc>>

\* lines 160-163
TcpCleanup ==
    /\ tcp.pc = "cleanup"
    /\ tcp' = [CloseListen(CloseClient(tcp)) EXCEPT
                  !.pc = "exited", !.exit_status = EXIT_SUCCESS]
    /\ UNCHANGED <<icmpVars, ck, mc>>

NextTcp ==
    \/ TcpSocket \/ TcpSetReuseAddr \/ TcpSetReusePort \/ TcpBind
    \/ TcpListen \/ TcpAccept \/ TcpRecv \/ TcpCleanup

SpecTcp == InitTcp /\ [][NextTcp]_vars

\* ------------------------------------------------------------------ claims
\* the last read delivered a datagram that holds a complete ICMP echo header
ReadWhole == dgram.len >= 0 /\ dgram.whole
\* the three fields of that datagram are those of the outstanding probe
FieldsMatch ==
    /\ dgram.type = ICMP_ECHOREPLY
    /\ dgram.id = Identifier
    /\ dgram.seq = sequence
Accepted == lastLine = "success" \/ received

\* C1: a datagram whose type, identifier or sequence differs from the
\* outstanding probe's is never accepted: no success line, 'received' not set.
C1_FilterOnThreeFields == (ReadWhole /\ ~FieldsMatch) => ~Accepted
C1_Witness ==
    /\ ReadWhole /\ pc = "wait" /\ ~received
    /\ dgram.type = ICMP_ECHOREPLY /\ dgram.seq = sequence
    /\ dgram.id # Identifier

\* C2: a reply whose three fields match but whose checksum is not the
\* checksum of its bytes is never reported as the match.
C2_CorruptChecksumRejected == (ReadWhole /\ FieldsMatch /\ ~dgram.intact) => ~Accepted
C2_Witness == ReadWhole /\ FieldsMatch /\ ~dgram.intact /\ pc = "wait" /\ ~received

\* C3 (as claimed): the loop is counted; no more than 10 iterations are begun.
C3_TenAttemptsAtMost == attempts <= INITIAL_SEND_COUNT

\* C4 (as claimed): each Echo Request carries a sequence one greater than
\* the Echo Request of the iteration before it.
C4_SequenceAdvances ==
    (probe.sent /\ prev.sent) => Word(probe.wire, 6) = Word(prev.wire, 6) + 1

\* C5 (as claimed): the peer's valid reply to the previous probe, which timed
\* out, is not accepted as the reply to the outstanding probe.
C5_StaleReplyDiscarded ==
    (ReadWhole /\ dgram.origin = 1 /\ dgram.changed = "none" /\ prev.timeout = 1)
        => lastLine # "success"

\* C6 (as claimed): a timeout is reported only once the whole wait budget
\* has elapsed since the pre-send timestamp.
C6_TimeoutOnlyAfterBudget ==
    lastLine = "Request timed out" => elapsed >= MAX_WAIT_TIME

\* C7 (as claimed): the round-trip time reported for a match lies between 0
\* and the wait budget.
C7_LatencyWithinBudget ==
    lastLine = "success" => (0 <= duration /\ duration <= MAX_WAIT_TIME)

\* C8: a transmitted probe has at most one outcome at any time, and exactly
\* one (a success line or a timeout line) once its iteration is over, which
\* is before the next Echo Request is transmitted.
C8_OneOutcomePerProbe ==
    /\ probe.success + probe.timeout <= 1
    /\ (probe.sent /\ pc \in {"loop", "sleep", "build", "send", "exited"})
          => probe.success + probe.timeout = 1
C8_Witness == pc = "send" /\ probe.sent /\ probe.success = 1

\* C9: a failed sendto is logged, nothing is read or reported for that
\* probe, the run goes on, and every sendto follows a sleep of one second.
C9_SendErrorSkipsProbe ==
    /\ (lastLine = "Failed to send ICMP packet") => (probe.senderr = 1 /\ pc = "loop")
    /\ (probe.senderr = 1) =>
          /\ ~probe.sent /\ ~probe.read
          /\ probe.success = 0 /\ probe.timeout = 0
          /\ exit_status = -1
          /\ pc \in {"loop", "sleep", "build", "send"}
    /\ (pc = "send") => idle >= SLEEP_MS
C9_Witness == pc = "send" /\ probe.senderr = 1 /\ idle >= SLEEP_MS

\* C10: a failure of socket, setsockopt or bind writes a diagnostic and ends
\* the process with a nonzero status before any Echo Request is sent.
SetupDiagnostics ==
    {"Failed to create socket", "Failed to set socket options",
     "Failed to bind socket", "Failed to set SO_RCVTIMEO"}
C10_SetupFailureAborts ==
    /\ (lastLine \in SetupDiagnostics) =>
          /\ pc = "exited"
          /\ exit_status # 0 /\ exit_status # -1
          /\ attempts = 0 /\ ~probe.sent /\ ~prev.sent
    /\ (exit_status = EXIT_FAILURE) => lastLine \in SetupDiagnostics
    /\ (pc \notin {"socket", "exited"}) => sockfd = "open"
C10_Witness == lastLine = "Failed to set SO_RCVTIMEO" /\ exit_status = EXIT_FAILURE

\* C11: calculate_checksum returns the RFC 1071 checksum of the buffer, of
\* even or odd length: stored in the host's byte order it is, byte for byte,
\* the complement of the end-around-carry sum of the buffer's 16-bit words.
C11_IsInternetChecksum ==
    (ck.stage \in {"summed", "stored", "validated"}) =>
        <<Lo(ck.result), Hi(ck.result)>> =
            <<Hi(WireChecksum(ck.buf)), Lo(WireChecksum(ck.buf))>>
C11_Witness ==
    /\ ck.stage = "summed"
    /\ Len(ck.buf) % 2 = 1 /\ Len(ck.buf) >= 5
    /\ WireSum(ck.buf, 0) > 65535

\* C12: a buffer whose checksum field is zero, once calculate_checksum of it
\* is written into the field, passes the receiver's validation.
C12_ChecksumRoundTrip == (ck.stage = "validated") => ck.valid
C12_Witness ==
    /\ ck.stage = "validated" /\ ck.valid
    /\ Len(ck.packet) % 2 = 1
    /\ ck.result \notin {0, 65535}

\* the checksum field of a packet holds, in network order, the Internet
\* checksum of the packet with that field zeroed
FieldHoldsChecksum(packet) ==
    LET c == WireChecksum(Store(packet, 2, <<0, 0>>))
    IN  <<packet[3], packet[4]>> = <<Hi(c), Lo(c)>>

\* C13: the packet handed to sendto, and the packet transmitted, is 64 bytes
\* long, carries the current sequence number, and its checksum field holds
\* the checksum of all 64 bytes computed with that field zeroed.
C13_TransmittedChecksum ==
    /\ (pc = "send") =>
           /\ Len(send_buffer) = SendLen
           /\ Word(send_buffer, 6) = sequence % 65536
           /\ FieldHoldsChecksum(send_buffer)
    /\ probe.sent =>
           /\ Len(probe.wire) = SendLen
           /\ FieldHoldsChecksum(probe.wire)
C13_Witness ==
    /\ pc = "wait" /\ probe.sent /\ prev.sent
    /\ <<probe.wire[3], probe.wire[4]>> # <<0, 0>>

\* C14 (as claimed): a reply whose three fields match and whose checksum is
\* wrong is logged, and the wait goes on.
C14_MismatchLogged ==
    [][(pc = "recv" /\ ReadWhole' /\ FieldsMatch' /\ ~dgram'.intact)
          => (lastLine' # "none" /\ pc' = "wait" /\ ~received')]_vars

\* C15: a datagram that fails the filter produces no line, reports nothing
\* and leaves the wait running; a valid matching reply read while the wait
\* is running, whatever was discarded before it, is reported as the match.
C15_DiscardedSilently ==
    [][/\ (pc = "recv" /\ ReadWhole' /\ ~FieldsMatch')
            => /\ lastLine' = "none" /\ pc' = "wait"
               /\ received' = received
               /\ probe'.success = probe.success
               /\ probe'.timeout = probe.timeout
       /\ (pc = "recv" /\ ReadWhole' /\ FieldsMatch' /\ dgram'.intact)
            => /\ lastLine' = "success" /\ received'
               /\ probe'.success = probe.success + 1
               /\ duration' < MAX_WAIT_TIME + RCV_TIMEOUT_MS]_vars
C15_Witness ==
    /\ lastLine = "success" /\ probe.success = 1
    /\ probe.filtered = MaxFiltered
    /\ ReadWhole /\ FieldsMatch /\ dgram.intact

\* C19 (as claimed): a datagram too short to hold an ICMP echo header is
\* never reported as the reply, whatever recv_buffer held before it.
C19_ShortNeverMatched == (dgram.len >= 0 /\ ~dgram.whole) => ~Accepted

\* C16 (as claimed): once the group has been joined, the process does not
\* stop without having called IP_DROP_MEMBERSHIP, and that call is made
\* before the socket is closed.
C16_DropOnEveryStop ==
    (mc.pc = "terminated" /\ mc.joined) =>
        \E i \in 1..Len(mc.calls) :
            /\ mc.calls[i] = "drop"
            /\ \A j \in 1..i : mc.calls[j] # "close"

\* C17 (as claimed): the receiver does not stop after its first connection
\* when a further sender connects.
C17_FurtherSenderAccepted ==
    ~(tcp.pc = "exited" /\ tcp.accepted = 1 /\ tcp.senders > 0)

\* C18 (as claimed): no descriptor is closed twice; after the receive loop
\* each of the two descriptors has been closed exactly once.
C18_ClosedOnce ==
    /\ tcp.clientCloses <= 1 /\ tcp.listenCloses <= 1
    /\ tcp.badCloses = 0
    /\ (tcp.pc = "exited" /\ tcp.accepted = 1)
          => (tcp.clientCloses = 1 /\ tcp.listenCloses = 1)

====
